---- MODULE Spec2Model ----
(***************************************************************************)
(* Connection manager of samsung-tv-bridge (src/src/api.ts, class Api).    *)
(*                                                                         *)
(* The manager keeps one handle `socket` to a ws WebSocket, the flags      *)
(* `connected` and `shouldReconnect`, one heartbeat timer handle           *)
(* `pingTimeout` and a Set of subscriber callbacks.  Every handler of the  *)
(* class is an operator from manager state to manager state; every action  *)
(* is one turn of the node event loop: a caller call, the continuation of  *)
(* the awaited token read, a transport event or a timer expiry.            *)
(*                                                                         *)
(* Transports are the WebSocket objects that have not emitted 'close', in  *)
(* order of construction; a WebSocket that emits 'close' leaves the list   *)
(* (its readyState is CLOSED for good and the close handler clears the     *)
(* handle without reading it).  Their readyState moves as in ws 7.x        *)
(* (package.json: "ws": "^7.4.6"):                                         *)
(*   CONNECTING -> OPEN on 'open';                                         *)
(*   terminate() on CONNECTING aborts the handshake: CLOSING, 'error'      *)
(*     emitted synchronously, 'close' emitted in a later turn;             *)
(*   terminate() on OPEN: CLOSING, socket destroyed, 'close' later;        *)
(*   terminate() on CLOSING or CLOSED changes nothing;                     *)
(*   'close' is emitted once per transport, with readyState CLOSED.        *)
(* Time is kept as the time remaining on each armed timer.                 *)
(***************************************************************************)
EXTENDS Integers, Sequences, FiniteSets, TLC

VARIABLES
    connected,        \* Api.connected
    shouldReconnect,  \* Api.shouldReconnect
    socket,           \* Api.socket: 0 is undefined or closed, t > 0 is sockets[t]
    pingTimeout,      \* Api.pingTimeout: 0 is undefined, k > 0 is timer k
    subscribers,      \* Api.subscribers: callback -> number of entries
    tokenFile,        \* Api.tokenFile: TRUE when a path is configured
    sockets,          \* the WebSocket objects not yet closed
    timers,           \* node timers: Free, or the milliseconds left
    pending,          \* connect() calls suspended on the token-file read
    file,             \* content of the token file (Missing when absent)
    inflight,         \* TRUE while a writeFile of the token has not completed
    retryTimers,      \* reconnect-delay timers armed by reconnect()
    disconnected,     \* disconnect() was called, no caller connect() since
    registered,       \* callbacks passed to addSubscriber since the last clear
    last              \* the operation of the last step and what it did

vars == <<connected, shouldReconnect, socket, pingTimeout, subscribers,
          tokenFile, sockets, timers, pending, file, inflight, retryTimers,
          disconnected, registered, last>>

----------------------------------------------------------------------------
(* Bounds of the model *)

MaxTransports == 2
MaxTimers == 2

(* Program constants *)

EVENTS_HEARTBEAT_INTERVAL_MS == 20 * 1000
EVENTS_RECONNECT_INTERNAL_MS == 5 * 1000
WSS_PORT == 8002

CONNECTING == "CONNECTING"
OPEN == "OPEN"
CLOSING == "CLOSING"

\* the clock advances by half a heartbeat interval at a time
TickMs == EVENTS_HEARTBEAT_INTERVAL_MS \div 2
Free == 0 - 1
Missing == "<missing>"
Null == "<null>"
Callbacks == {"f", "g"}
Origins == {"caller", "auto"}

(* Inbound frames: the text of a message *)
FrameToken == [json |-> TRUE, event |-> "ms.channel.connect", token |-> "NEWTOK"]
FrameNullToken == [json |-> TRUE, event |-> "ms.channel.connect", token |-> Null]
FrameOther == [json |-> TRUE, event |-> "ms.channel.clientConnect", token |-> "NEWTOK"]
FrameGarbage == [json |-> FALSE, event |-> Null, token |-> Null]
Frames == {FrameToken, FrameNullToken, FrameOther, FrameGarbage}

----------------------------------------------------------------------------
(* The manager state as one value, so that handlers compose *)

State ==
    [connected |-> connected, shouldReconnect |-> shouldReconnect,
     socket |-> socket, pingTimeout |-> pingTimeout,
     subscribers |-> subscribers, sockets |-> sockets, timers |-> timers,
     pending |-> pending, inflight |-> inflight,
     retryTimers |-> retryTimers, ok |-> TRUE]

Set(s) ==
    /\ s.ok
    /\ connected' = s.connected
    /\ shouldReconnect' = s.shouldReconnect
    /\ socket' = s.socket
    /\ pingTimeout' = s.pingTimeout
    /\ subscribers' = s.subscribers
    /\ sockets' = s.sockets
    /\ timers' = s.timers
    /\ pending' = s.pending
    /\ inflight' = s.inflight
    /\ retryTimers' = s.retryTimers

Transports == 1..Len(sockets)
Budget(s) == Len(s.sockets) + s.pending["caller"] + s.pending["auto"]

\* transport t emits 'close': readyState CLOSED, and it leaves the list
emitClose(s, t) ==
    [s EXCEPT !.sockets = [i \in 1..(Len(@) - 1) |->
                              IF i < t THEN @[i] ELSE @[i + 1]],
              !.socket = IF @ = t THEN 0 ELSE IF @ > t THEN @ - 1 ELSE @]

----------------------------------------------------------------------------
(* WebSocket#terminate and the error handler it may run synchronously *)

RECURSIVE terminate(_, _)

\* this.socket?.terminate()
socketTerminate(s) == IF s.socket = 0 THEN s ELSE terminate(s, s.socket)

onError(s) == socketTerminate(s)

terminate(s, t) ==
    LET rs == s.sockets[t].readyState IN
    IF rs = CONNECTING
    THEN onError([s EXCEPT !.sockets[t].readyState = CLOSING,
                           !.sockets[t].closePending = TRUE])
    ELSE IF rs = OPEN
    THEN [s EXCEPT !.sockets[t].readyState = CLOSING,
                   !.sockets[t].closePending = TRUE]
    ELSE s

----------------------------------------------------------------------------
(* Timers and the heartbeat *)

clearTimeout(s, h) ==
    IF h # 0 /\ s.timers[h] # Free THEN [s EXCEPT !.timers[h] = Free] ELSE s

setTimeout(s, ms) ==
    IF \A k \in 1..MaxTimers : s.timers[k] # Free
    THEN [s EXCEPT !.ok = FALSE]
    ELSE LET k == CHOOSE i \in 1..MaxTimers :
                      /\ s.timers[i] = Free
                      /\ \A j \in 1..(i - 1) : s.timers[j] # Free
         IN [s EXCEPT !.timers[k] = ms, !.pingTimeout = k]

\* heartbeat() arming the timer with the reconnect delay instead
heartbeatWrongInterval(s) ==
    setTimeout(clearTimeout(s, s.pingTimeout), EVENTS_RECONNECT_INTERNAL_MS)

heartbeat(s) ==
    setTimeout(clearTimeout(s, s.pingTimeout), EVENTS_HEARTBEAT_INTERVAL_MS)

----------------------------------------------------------------------------
(* connect(), reconnect() and the transport handlers *)

construct(s) ==
    IF Len(s.sockets) >= MaxTransports
    THEN [s EXCEPT !.ok = FALSE]
    ELSE [s EXCEPT !.sockets = Append(@, [readyState |-> CONNECTING,
                                           closePending |-> FALSE,
                                           saveToken |-> tokenFile,
                                           captured |-> FALSE]),
                   !.socket = Len(s.sockets) + 1]

\* what promises.readFile can settle with, given the file
ReadOutcomes ==
    IF file = Missing THEN {[ok |-> FALSE, data |-> "ENOENT"]}
    ELSE {[ok |-> TRUE, data |-> file], [ok |-> FALSE, data |-> "EIO"]}

\* the read without its catch: the failure becomes the token
readTokenUncaught(outcome) == outcome.data

\* the value of `token` after the try/catch around the read
readToken(outcome) == IF outcome.ok THEN outcome.data ELSE ""

\* the url of line 66, as its parts
webSocketUrl(token) ==
    [scheme |-> "wss", port |-> WSS_PORT,
     path |-> "/api/v2/channels/samsung.remote.control", token |-> token]

\* a guard that forgets the CONNECTING state
connectGuardOpenOnly(s) ==
    /\ s.socket # 0
    /\ s.sockets[s.socket].readyState = OPEN

connectGuard(s) ==
    /\ s.socket # 0
    /\ s.sockets[s.socket].readyState \in {OPEN, CONNECTING}

connect(s, by) ==
    IF connectGuard(s)
    THEN s
    ELSE LET s1 == socketTerminate(s) IN
         IF tokenFile
         THEN IF Budget(s1) >= MaxTransports
              THEN [s1 EXCEPT !.ok = FALSE]
              ELSE [s1 EXCEPT !.pending[by] = @ + 1]
         ELSE construct(s1)

\* a connect() that were not async and returned false
connectValueFalse == "false"

\* the value of the expression this.connect(): connect is an async function,
\* so the call yields a promise, whatever the function returns
connectValue == "Promise"

\* JavaScript's !v is true for the falsy values only
Not(v) == v \in {"false", "0", "", "null", "undefined", "NaN"}

\* the timer of reconnect(), armed when !this.connect()
setRetryTimeout(s, ms) == [s EXCEPT !.retryTimers = @ + 1]

\* reconnect() that does not look at shouldReconnect
reconnectUnconditional(s) ==
    IF s.connected THEN s
    ELSE LET s1 == connect(s, "auto") IN
         IF Not(connectValue)
         THEN setRetryTimeout(s1, EVENTS_RECONNECT_INTERNAL_MS)
         ELSE s1

reconnect(s) ==
    IF s.connected \/ ~s.shouldReconnect THEN s
    ELSE LET s1 == connect(s, "auto") IN
         IF Not(connectValue)
         THEN setRetryTimeout(s1, EVENTS_RECONNECT_INTERNAL_MS)
         ELSE s1

onOpen(s) ==
    heartbeat([s EXCEPT !.connected = TRUE, !.shouldReconnect = TRUE])

\* onClose() calling reconnect() before it marks the manager disconnected
onCloseReconnectFirst(s) ==
    [reconnect(clearTimeout(s, s.pingTimeout)) EXCEPT !.socket = 0,
                                                      !.connected = FALSE]

\* onClose() pruning the registry
onClosePruning(s) ==
    reconnect([clearTimeout(s, s.pingTimeout)
                  EXCEPT !.socket = 0, !.connected = FALSE,
                         !.subscribers = [f \in Callbacks |-> 0]])

onClose(s) ==
    reconnect([clearTimeout(s, s.pingTimeout) EXCEPT !.socket = 0,
                                                     !.connected = FALSE])

\* disconnect() that only terminates
disconnectTerminateOnly(s) == socketTerminate(s)

disconnect(s) == socketTerminate([s EXCEPT !.shouldReconnect = FALSE])

----------------------------------------------------------------------------
(* Messages: fan-out and token capture *)

\* a registry that is a list: every add is an entry
addSubscriberPush(s, f) == [s EXCEPT !.subscribers[f] = @ + 1]

addSubscriber(s, f) ==
    [s EXCEPT !.subscribers[f] = IF @ = 0 THEN 1 ELSE @]

clearSubscribers(s) == [s EXCEPT !.subscribers = [f \in Callbacks |-> 0]]

\* what subscribers.forEach invokes for one event: callback -> invocations
fanOut(s) == s.subscribers

\* the argument of each invocation: the event itself
subscriberArg(event) == event

onMessage(s) == heartbeat(s)

JSONparse(event) ==
    IF event.json THEN [event |-> event.event, token |-> event.token]
    ELSE [event |-> Null, token |-> Null]

\* a test that does not look at the event name
capturesAnyEvent(event) ==
    LET content == JSONparse(event) IN
    /\ tokenFile
    /\ content.token # Null

captures(event) ==
    LET content == JSONparse(event) IN
    /\ tokenFile
    /\ content.event = "ms.channel.connect"
    /\ content.token # Null

\* the saveToken closure registered on transport t, run for one message
saveToken(s, t, event) ==
    IF ~captures(event) THEN s
    ELSE LET s1 == [s EXCEPT !.inflight = TRUE,
                             !.sockets[t].captured = TRUE]
         IN IF s1.socket = t
            THEN [s1 EXCEPT !.sockets[t].saveToken = FALSE]
            ELSE s1

\* milliseconds until the timer of pingTimeout expires; Free when none is armed
Deadline ==
    IF pingTimeout # 0 /\ timers[pingTimeout] # Free THEN timers[pingTimeout]
    ELSE Free

ArmedTimers == {k \in 1..MaxTimers : timers[k] # Free}

\* the transports that are neither closed nor terminated
LiveTransports ==
    {t \in Transports : sockets[t].readyState \in {CONNECTING, OPEN}}

----------------------------------------------------------------------------
Init ==
    /\ connected = FALSE
    /\ shouldReconnect = FALSE
    /\ socket = 0
    /\ pingTimeout = 0
    /\ subscribers = [f \in Callbacks |-> 0]
    /\ tokenFile \in BOOLEAN
    /\ sockets = <<>>
    /\ timers = [k \in 1..MaxTimers |-> Free]
    /\ pending = [o \in Origins |-> 0]
    /\ file \in {Missing, "abc123"}
    /\ inflight = FALSE
    /\ retryTimers = 0
    /\ disconnected = FALSE
    /\ registered = {}
    /\ last = [op |-> "init"]

\* api.connect() called by the caller
CallerConnect ==
    /\ Set(connect(State, "caller"))
    /\ disconnected' = FALSE
    /\ last' = [op |-> "connect", ret |-> TRUE]
    /\ UNCHANGED <<tokenFile, file, registered>>

\* the awaited readFile settles and connect() runs to its end
ConnectResumeBy(by) ==
    \E outcome \in ReadOutcomes :
        /\ pending[by] > 0
        /\ Set(construct([State EXCEPT !.pending[by] = @ - 1]))
        /\ last' = [op |-> "resume", by |-> by, read |-> outcome,
                    url |-> webSocketUrl(readToken(outcome)), ret |-> TRUE]
        /\ UNCHANGED <<tokenFile, file, disconnected, registered>>

ConnectResume == \E by \in Origins : ConnectResumeBy(by)

Disconnect ==
    /\ Set(disconnect(State))
    /\ disconnected' = TRUE
    /\ last' = [op |-> "disconnect"]
    /\ UNCHANGED <<tokenFile, file, registered>>

AddSubscriber ==
    \E f \in Callbacks :
        /\ Set(addSubscriber(State, f))
        /\ registered' = registered \cup {f}
        /\ last' = [op |-> "addSubscriber", f |-> f]
        /\ UNCHANGED <<tokenFile, file, disconnected>>

ClearSubscribers ==
    /\ Set(clearSubscribers(State))
    /\ registered' = {}
    /\ last' = [op |-> "clearSubscribers"]
    /\ UNCHANGED <<tokenFile, file, disconnected>>

\* 'open': the handshake of transport t completed
Open ==
    \E t \in Transports :
        /\ sockets[t].readyState = CONNECTING
        /\ Set(onOpen([State EXCEPT !.sockets[t].readyState = OPEN]))
        /\ last' = [op |-> "open", t |-> t]
        /\ UNCHANGED <<tokenFile, file, disconnected, registered>>

\* the upgrade request of transport t fails: 'error' and 'close' are emitted
\* one after the other in the same turn
RequestError ==
    \E t \in Transports :
        /\ sockets[t].readyState = CONNECTING
        /\ LET s1 == onError([State EXCEPT !.sockets[t].readyState = CLOSING])
           IN Set(onClose(emitClose(s1, t)))
        /\ last' = [op |-> "requestError", t |-> t,
                    reconnect |-> shouldReconnect]
        /\ UNCHANGED <<tokenFile, file, disconnected, registered>>

\* the server answers the upgrade request of transport t with an unexpected
\* response: the handshake is aborted as by terminate()
UnexpectedResponse ==
    \E t \in Transports :
        /\ sockets[t].readyState = CONNECTING
        /\ Set(terminate(State, t))
        /\ last' = [op |-> "unexpectedResponse", t |-> t]
        /\ UNCHANGED <<tokenFile, file, disconnected, registered>>

\* an invalid frame on the open transport t: 'error' now, 'close' later
ReceiverError ==
    \E t \in Transports :
        /\ sockets[t].readyState = OPEN
        /\ Set(onError([State EXCEPT !.sockets[t].readyState = CLOSING,
                                     !.sockets[t].closePending = TRUE]))
        /\ last' = [op |-> "receiverError", t |-> t]
        /\ UNCHANGED <<tokenFile, file, disconnected, registered>>

\* the peer closes or the connection of the open transport t drops
PeerClose ==
    \E t \in Transports :
        /\ sockets[t].readyState = OPEN
        /\ Set([State EXCEPT !.sockets[t].readyState = CLOSING,
                             !.sockets[t].closePending = TRUE])
        /\ last' = [op |-> "peerClose", t |-> t]
        /\ UNCHANGED <<tokenFile, file, disconnected, registered>>

\* 'close' of transport t
CloseEvent ==
    \E t \in Transports :
        /\ sockets[t].closePending
        /\ Set(onClose(emitClose(State, t)))
        /\ last' = [op |-> "close", t |-> t, reconnect |-> shouldReconnect]
        /\ UNCHANGED <<tokenFile, file, disconnected, registered>>

\* 'message' on transport t: onMessage, then the saveToken closure of t when
\* it is still a listener of t (ws emits no 'data' event, so the listener of
\* line 78 never runs)
Message ==
    \E t \in Transports, event \in Frames :
        /\ sockets[t].readyState = OPEN
        /\ LET s1 == onMessage(State)
           IN /\ Set(IF sockets[t].saveToken THEN saveToken(s1, t, event)
                     ELSE s1)
              /\ last' = [op |-> "message", t |-> t, event |-> event,
                          calls |-> fanOut(s1),
                          arg |-> subscriberArg(event), before |-> Deadline,
                          saved |-> sockets[t].saveToken /\ captures(event)]
        /\ UNCHANGED <<tokenFile, file, disconnected, registered>>

\* 'ping' on transport t
Ping ==
    \E t \in Transports :
        /\ sockets[t].readyState = OPEN
        /\ Set(heartbeat(State))
        /\ last' = [op |-> "ping", t |-> t, before |-> Deadline]
        /\ UNCHANGED <<tokenFile, file, disconnected, registered>>

\* time passes
Tick ==
    /\ \E k \in 1..MaxTimers : timers[k] > 0
    /\ timers' = [k \in 1..MaxTimers |->
                    IF timers[k] = Free THEN Free
                    ELSE IF timers[k] > TickMs THEN timers[k] - TickMs ELSE 0]
    /\ last' = [op |-> "tick"]
    /\ UNCHANGED <<connected, shouldReconnect, socket, pingTimeout,
                   subscribers, tokenFile, sockets, pending, file, inflight,
                   retryTimers, disconnected, registered>>

\* the callback of timer k runs
PingTimeoutFire ==
    \E k \in 1..MaxTimers :
        /\ timers[k] = 0
        /\ Set(socketTerminate([State EXCEPT !.timers[k] = Free]))
        /\ last' = [op |-> "timeout", k |-> k, socket |-> socket]
        /\ UNCHANGED <<tokenFile, file, disconnected, registered>>

\* a writeFile started by saveToken completes
WriteDone ==
    /\ inflight
    /\ inflight' = FALSE
    /\ file' = "NEWTOK"
    /\ last' = [op |-> "written"]
    /\ UNCHANGED <<connected, shouldReconnect, socket, pingTimeout,
                   subscribers, tokenFile, sockets, timers, pending,
                   retryTimers, disconnected, registered>>

Next ==
    \/ CallerConnect
    \/ ConnectResume
    \/ Disconnect
    \/ AddSubscriber
    \/ ClearSubscribers
    \/ Open
    \/ RequestError
    \/ UnexpectedResponse
    \/ ReceiverError
    \/ PeerClose
    \/ CloseEvent
    \/ Message
    \/ Ping
    \/ Tick
    \/ PingTimeoutFire
    \/ WriteDone

Spec == Init /\ [][Next]_vars

\* the event loop settles every pending token read
FairSpec == Spec /\ \A by \in Origins : WF_vars(ConnectResumeBy(by))

\* and every transport that was terminated or lost its connection emits 'close'
FairCloseSpec == FairSpec /\ WF_vars(CloseEvent)

----------------------------------------------------------------------------
(* Properties *)

IsFrame(l) == l.op \in {"message", "ping"}

C2_NoReconnectAfterDisconnect == disconnected => ~shouldReconnect

\* C3: a close event handled while shouldReconnect is true makes the manager
\* call connect() itself, which passes the guard: a token read is pending for
\* it (or, with no token file, the transport is constructed at once), and
\* every pending read of the manager ends in a constructed transport.
C3_CloseReconnects ==
    /\ [][(last'.op \in {"close", "requestError"} /\ shouldReconnect)
          => IF tokenFile
             THEN pending'["auto"] = pending["auto"] + 1
             ELSE /\ socket' # 0
                  /\ sockets'[socket'].readyState = CONNECTING]_vars
    /\ (pending["auto"] > 0) ~> (last.op = "resume" /\ last.by = "auto")

\* a transport constructed by a connect() that the close handler started
C3_Witness ==
    /\ last.op = "resume"
    /\ last.by = "auto"
    /\ socket # 0
    /\ sockets[socket].readyState = CONNECTING

\* C4: connected implies that the handle is set and its transport is OPEN.
C4_ConnectedImpliesOpen ==
    connected => (socket # 0 /\ sockets[socket].readyState = OPEN)

\* C5: while connected, exactly one heartbeat timer is armed.
C5_OneTimerWhileConnected == connected => Cardinality(ArmedTimers) = 1

\* C6: when the heartbeat interval expires (no open event and no frame has
\* re-armed the timer for the whole interval), the silent connection is
\* force-terminated: no transport is left OPEN by the expiry, and every
\* transport it left CLOSING has exactly one close event pending.
C6_TimeoutTerminates ==
    [][last'.op = "timeout"
       => \A t \in 1..Len(sockets') :
            /\ sockets'[t].readyState # OPEN
            /\ sockets'[t].readyState = CLOSING => sockets'[t].closePending]_vars

\* C7: after an inbound frame the heartbeat expires a full interval from now,
\* strictly later than it did before the frame.
C7_FrameStrictlyLater ==
    IsFrame(last) =>
        (Deadline = EVENTS_HEARTBEAT_INTERVAL_MS /\ Deadline > last.before)

\* C7, amended: after an inbound frame the heartbeat expires a full interval
\* from now, never earlier than it did before the frame; it is strictly
\* later exactly when time has passed since the timer was armed.
C7_FrameNotEarlier ==
    IsFrame(last) =>
        /\ Deadline = EVENTS_HEARTBEAT_INTERVAL_MS
        /\ Deadline >= last.before
        /\ Cardinality(ArmedTimers) = 1

\* a frame that moved the deadline from half an interval to a full one
C7_Witness ==
    /\ IsFrame(last)
    /\ last.before > 0
    /\ last.before < EVENTS_HEARTBEAT_INTERVAL_MS
    /\ Deadline = EVENTS_HEARTBEAT_INTERVAL_MS

\* C8: on one transport at most one frame is captured: a frame that causes a
\* token-file write arrives on a transport that has captured no token yet.
C8_CaptureAtMostOnce ==
    [][(last'.op = "message" /\ last'.saved)
       => ~sockets[last'.t].captured]_vars

\* C9: a message invokes every callback registered since the last
\* clearSubscribers() exactly once, and no other callback.
C9_FanOutOncePerSubscriber ==
    last.op = "message" =>
        \A f \in Callbacks : last.calls[f] = IF f \in registered THEN 1 ELSE 0

\* a message delivered to two registered callbacks
C9_Witness ==
    /\ last.op = "message"
    /\ registered = Callbacks
    /\ \A f \in Callbacks : last.calls[f] = 1

\* C10: a resumed connect attempt has read the token file once; the token
\* parameter of its url is the content read, or the empty string when the
\* read failed; either way the transport is constructed and the call
\* returns true.
C10_TokenFromFile ==
    last.op = "resume" =>
        /\ last.url.token = (IF last.read.ok THEN file ELSE "")
        /\ last.ret = TRUE
        /\ socket = Len(sockets)
        /\ socket # 0
        /\ sockets[socket].readyState = CONNECTING

\* a connect attempt whose read failed and that constructed a transport
C10_Witness ==
    /\ last.op = "resume"
    /\ ~last.read.ok
    /\ last.url.token = ""
    /\ socket # 0
    /\ sockets[socket].readyState = CONNECTING

C12_RegistryFrame ==
    [][/\ subscribers' # subscribers
          => last'.op \in {"addSubscriber", "clearSubscribers"}
       /\ last'.op = "message" => last'.calls = subscribers]_vars

\* a close whose handler reconnected, with both callbacks still registered
C12_Witness ==
    /\ last.op = "close"
    /\ last.reconnect
    /\ \A f \in Callbacks : subscribers[f] = 1
    /\ socket # 0
    /\ sockets[socket].readyState = CONNECTING

\* C13: disconnect() called when no transport exists sets shouldReconnect to
\* false and does nothing else: no transport is constructed, no timer is
\* armed, connected is and stays false, and the handle, the registry and the
\* pending token reads are as they were.
C13_DisconnectWithoutTransport ==
    [][(last'.op = "disconnect" /\ Len(sockets) = 0)
       => /\ ~shouldReconnect'
          /\ ~connected /\ ~connected'
          /\ UNCHANGED <<socket, pingTimeout, subscribers, sockets, timers,
                         retryTimers, pending, inflight, file>>]_vars

\* disconnect() called before any connect()
C13_Witness ==
    /\ last.op = "disconnect"
    /\ Len(sockets) = 0
    /\ socket = 0
    /\ pingTimeout = 0
    /\ pending = [o \in Origins |-> 0]
    /\ ~shouldReconnect

\* C14: an 'error' event of transport t that is not followed by 'close' in
\* its own turn leaves connected, shouldReconnect, the handle, the heartbeat
\* timer and the connect attempts as they were; its handling terminates
\* transport t and no other transport; after it t is CLOSING with exactly
\* one close event to come.
C14_ErrorOnlyTerminates ==
    [][last'.op \in {"receiverError", "unexpectedResponse"}
       => /\ UNCHANGED <<connected, shouldReconnect, socket, pingTimeout,
                         timers, pending, retryTimers>>
          /\ Len(sockets') = Len(sockets)
          /\ sockets'[last'.t].readyState = CLOSING
          /\ sockets'[last'.t].closePending
          /\ \A u \in Transports \ {last'.t} : sockets'[u] = sockets[u]]_vars

\* C15: every message, whatever its text, is passed as it is to every
\* callback of the registry; a message that is not JSON, or whose event is
\* not "ms.channel.connect", or that carries no token, starts no write of
\* the token file and leaves the capture listeners of all transports as
\* they were.
C15_MalformedIgnored ==
    [][last'.op = "message"
       => /\ last'.calls = subscribers
          /\ last'.arg = last'.event
          /\ ~(/\ last'.event.json
                /\ last'.event.event = "ms.channel.connect"
                /\ last'.event.token # Null)
             => /\ inflight' = inflight
                /\ file' = file
                /\ sockets' = sockets]_vars

\* a message that is not JSON, on a transport whose capture listener is
\* registered, delivered to a callback
C15_Witness ==
    /\ last.op = "message"
    /\ last.event = FrameGarbage
    /\ sockets[last.t].saveToken
    /\ ~inflight
    /\ last.calls["f"] = 1

\* C16: at most one transport is live (CONNECTING or OPEN) in every
\* reachable state.
C16_AtMostOneLive == Cardinality(LiveTransports) <= 1

\* C17: the close event of a transport that is not the one of the handle
\* leaves the handle on its transport, leaves connected true when that
\* transport is OPEN, and leaves the armed heartbeat timer armed.
C17_StaleCloseHarmless ==
    [][(last'.op = "close" /\ socket # 0 /\ socket # last'.t)
       => /\ socket' = (IF socket > last'.t THEN socket - 1 ELSE socket)
          /\ Len(sockets') = Len(sockets) - 1
          /\ (connected /\ sockets[socket].readyState = OPEN) => connected'
          /\ timers' = timers]_vars

Quiescent ==
    /\ ~connected
    /\ socket = 0
    /\ ArmedTimers = {}
    /\ pending = [o \in Origins |-> 0]

\* C19: after disconnect(), unless the caller calls connect() again, the
\* manager comes to rest (connected false, no handle, no heartbeat timer
\* armed, no connect attempt pending) and, once at rest, stays at rest.
C19_QuiescentAfterDisconnect ==
    /\ [][(disconnected /\ disconnected' /\ Quiescent) => Quiescent']_vars
    /\ disconnected ~> (Quiescent \/ ~disconnected)
====
